---- MODULE Spec2Model ----
(***************************************************************************)
(* Model of src/src/main.cpp: the control loop of the CNC paint sprayer.   *)
(*                                                                         *)
(* One iteration of loop() is three steps, in the order of the code:       *)
(*   Poll    lines 447-456  sensors updated, motorsRunning sampled,        *)
(*                          the three steppers given the chance to step    *)
(*   Serial  lines 458-509  at most one operator line consumed             *)
(*   Switch  lines 511-550  the state-dependent action                     *)
(* pc says which step is next; pc = "poll" is the boundary between ticks.  *)
(*                                                                         *)
(* AccelStepper and Bounce2 are libraries outside the repository. A        *)
(* stepper is a record [pos, togo]: its current position and the signed    *)
(* distance to its target; it is running iff togo # 0. Positions saturate  *)
(* at +-MaxPos and a commanded distance is capped at MaxTravel steps.      *)
(* A home sensor is updated at the top of the tick and read in the switch  *)
(* with nothing in between depending on it: the level it reads is chosen   *)
(* where it is read, as the parameter of HomingX and HomingY.              *)
(*                                                                         *)
(* Three variables record what a tick did, for the properties to read:     *)
(* issued (emptied by Poll) holds the device calls and sensor levels of    *)
(* the tick, cycleLog the <<side, index>> pairs handed to executeCommand   *)
(* since 'start', and cycleClean whether that cycle has run undisturbed    *)
(* (no emergency, no change of selection while executing). cycleLog is     *)
(* kept only while cycleClean holds and is dropped when homing starts.     *)
(***************************************************************************)
EXTENDS Integers, Sequences, FiniteSets, TLC

VARIABLES
    systemState,      \* SystemState (line 95)
    motorsRunning,    \* line 96
    currentSide,      \* line 97
    currentCommand,   \* line 98
    sidesToPaint,     \* line 99: [0..3 -> BOOLEAN]
    stepperX,         \* line 103
    stepperY,         \* line 104
    stepperRotation,  \* line 105
    paintRelay,       \* level of PAINT_RELAY_PIN: "LOW" sprays, "HIGH" does not
    input,            \* the line read in this tick (line 459), <<>> when none
    pc,               \* position in loop()
    issued,           \* the device calls made and sensor levels read in this tick
    cycleLog,         \* the <<side, index>> handed to executeCommand since 'start'
    cycleClean        \* since 'start': selection unchanged and no emergency

vars == <<systemState, motorsRunning, currentSide, currentCommand, sidesToPaint,
          stepperX, stepperY, stepperRotation,
          paintRelay, input, pc, issued, cycleLog, cycleClean>>

-----------------------------------------------------------------------------
(* Bounds of the model *)

MaxPos == 1
MaxTravel == 2
StopSteps == 1

(* Program constants *)

X_STEPS_PER_INCH == 127
Y_STEPS_PER_INCH == 169
ROTATION_NUM == 5000
ROTATION_DEN == 360
HOMING_TARGET == 1000000
NUM_SIDES == 4
ASCII_ZERO == 48

States == {"IDLE", "HOMING_X", "HOMING_Y", "HOMED_WAITING",
           "EXECUTING_PATTERN", "ERROR", "CYCLE_COMPLETE"}

-----------------------------------------------------------------------------
(* Arithmetic helpers *)

Abs(n) == IF n < 0 THEN -n ELSE n
Sgn(n) == IF n < 0 THEN -1 ELSE IF n > 0 THEN 1 ELSE 0
Min(a, b) == IF a < b THEN a ELSE b

\* float -> long conversion of n/d: truncation toward zero
Trunc(n, d) == IF n >= 0 THEN n \div d ELSE -((-n) \div d)

\* a distance, capped in magnitude at the model's bound
Cap(n, bound) == Sgn(n) * Min(Abs(n), bound)

\* a position, saturating at +-MaxPos
Sat(p) == IF p > MaxPos THEN MaxPos ELSE IF p < -MaxPos THEN -MaxPos ELSE p

-----------------------------------------------------------------------------
(* Commands (lines 67-81). value is in thousandths of an inch for a move   *)
(* and in degrees for a rotation.                                          *)

Command(t, v, s) == [type |-> t, value |-> v, sprayOn |-> s]
MOVE_X(dist, spray) == Command("X", dist, spray)
MOVE_Y(dist, spray) == Command("Y", dist, spray)
ROTATE(deg) == Command("R", deg, FALSE)
SPRAY_ON == Command("S", 0, TRUE)
SPRAY_OFF == Command("S", 0, FALSE)

SIDE1_PATTERN == <<
    MOVE_X(4500, FALSE), SPRAY_ON, MOVE_X(26000, TRUE), SPRAY_OFF,
    MOVE_Y(4160, FALSE), SPRAY_ON, MOVE_X(-26000, TRUE), SPRAY_OFF,
    MOVE_Y(4160, FALSE), SPRAY_ON, MOVE_X(26000, TRUE), SPRAY_OFF,
    MOVE_Y(4160, FALSE), SPRAY_ON, MOVE_X(-26000, TRUE), SPRAY_OFF,
    MOVE_Y(4160, FALSE), SPRAY_ON, MOVE_X(26000, TRUE), SPRAY_OFF,
    MOVE_Y(4160, FALSE), SPRAY_ON, MOVE_X(-26000, TRUE), SPRAY_OFF,
    MOVE_Y(4160, FALSE), SPRAY_ON, MOVE_X(26000, TRUE), SPRAY_OFF,
    MOVE_Y(4160, FALSE), SPRAY_ON, MOVE_X(-26000, TRUE), SPRAY_OFF,
    ROTATE(180)
>>

SIDE2_PATTERN == <<
    SPRAY_ON, MOVE_X(26000, TRUE), SPRAY_OFF, MOVE_Y(-4160, FALSE),
    SPRAY_ON, MOVE_X(-26000, TRUE), SPRAY_OFF, MOVE_Y(-4160, FALSE),
    SPRAY_ON, MOVE_X(26000, TRUE), SPRAY_OFF, MOVE_Y(-4160, FALSE),
    SPRAY_ON, MOVE_X(-26000, TRUE), SPRAY_OFF, MOVE_Y(-4160, FALSE),
    SPRAY_ON, MOVE_X(26000, TRUE), SPRAY_OFF, MOVE_Y(-4160, FALSE),
    SPRAY_ON, MOVE_X(-26000, TRUE), SPRAY_OFF, MOVE_Y(-4160, FALSE),
    SPRAY_ON, MOVE_X(26000, TRUE), SPRAY_OFF, MOVE_Y(-4160, FALSE),
    SPRAY_ON, MOVE_X(-26000, TRUE), SPRAY_OFF, MOVE_X(-4500, FALSE),
    ROTATE(90)
>>

SIDE3_PATTERN == <<
    MOVE_Y(4500, FALSE), SPRAY_ON, MOVE_X(35000, TRUE), SPRAY_OFF,
    MOVE_Y(4415, FALSE), SPRAY_ON, MOVE_X(-35000, TRUE), SPRAY_OFF,
    MOVE_Y(4415, FALSE), SPRAY_ON, MOVE_X(35000, TRUE), SPRAY_OFF,
    MOVE_Y(4415, FALSE), SPRAY_ON, MOVE_X(-35000, TRUE), SPRAY_OFF,
    MOVE_Y(4415, FALSE), SPRAY_ON, MOVE_X(35000, TRUE), SPRAY_OFF,
    MOVE_Y(4415, FALSE), SPRAY_ON, MOVE_X(-35000, TRUE), SPRAY_OFF,
    ROTATE(180)
>>

SIDE4_PATTERN == <<
    SPRAY_ON, MOVE_X(35000, TRUE), SPRAY_OFF, MOVE_Y(-4415, FALSE),
    SPRAY_ON, MOVE_X(-35000, TRUE), SPRAY_OFF, MOVE_Y(-4415, FALSE),
    SPRAY_ON, MOVE_X(35000, TRUE), SPRAY_OFF, MOVE_Y(-4415, FALSE),
    SPRAY_ON, MOVE_X(-35000, TRUE), SPRAY_OFF, MOVE_Y(-4415, FALSE),
    SPRAY_ON, MOVE_X(35000, TRUE), SPRAY_OFF, MOVE_Y(-4415, FALSE),
    SPRAY_ON, MOVE_X(-35000, TRUE), SPRAY_OFF, MOVE_Y(-4500, FALSE)
>>

SIDE1_SIZE == Len(SIDE1_PATTERN)
SIDE2_SIZE == Len(SIDE2_PATTERN)
SIDE3_SIZE == Len(SIDE3_PATTERN)
SIDE4_SIZE == Len(SIDE4_PATTERN)

\* the switch(currentSide) of processPattern
PatternOf(side) ==
    CASE side = 0 -> SIDE1_PATTERN
      [] side = 1 -> SIDE2_PATTERN
      [] side = 2 -> SIDE3_PATTERN
      [] side = 3 -> SIDE4_PATTERN

\* PatternSize one short: the last command of a side is never reached
PatternSizeOneShort(side) ==
    CASE side = 0 -> SIDE1_SIZE - 1
      [] side = 1 -> SIDE2_SIZE - 1
      [] side = 2 -> SIDE3_SIZE - 1
      [] side = 3 -> SIDE4_SIZE - 1

PatternSize(side) ==
    CASE side = 0 -> SIDE1_SIZE
      [] side = 1 -> SIDE2_SIZE
      [] side = 2 -> SIDE3_SIZE
      [] side = 3 -> SIDE4_SIZE

-----------------------------------------------------------------------------
(* The stepper library, as the program uses it *)

Stepper(p, d) == [pos |-> p, togo |-> d]

IsRunning(s) == s.togo # 0

\* move(relative): the target is set relative to the current position
Move(s, rel) == [s EXCEPT !.togo = Cap(rel, MaxTravel)]

\* moveTo(absolute)
MoveTo(s, abs) == [s EXCEPT !.togo = Cap(abs - s.pos, MaxTravel)]

\* stop(): a moving stepper gets a short decelerating distance, an idle one nothing
Stop(s) == IF s.togo # 0 THEN [s EXCEPT !.togo = Cap(@, StopSteps)] ELSE s

\* setCurrentPosition(p): position and target both p, speed zero
SetCurrentPosition(s, p) == Stepper(p, 0)

\* run(): at most one step, when one is due
Run(s, due) ==
    IF due /\ s.togo # 0
    THEN Stepper(Sat(s.pos + Sgn(s.togo)), s.togo - Sgn(s.togo))
    ELSE s

-----------------------------------------------------------------------------
(* executeCommand (lines 321-341) on the devices                            *)
(* d = [x, y, r, relay, calls]                                              *)

Devices == [x |-> stepperX, y |-> stepperY, r |-> stepperRotation,
            relay |-> paintRelay, calls |-> issued]

\* executeCommand with a move writing the relay both ways
executeCommandMoveSetsRelay(cmd, d) ==
    CASE cmd.type = "X" ->
           [d EXCEPT !.relay = IF cmd.sprayOn THEN "LOW" ELSE "HIGH",
                     !.x = Move(@, Trunc(cmd.value * X_STEPS_PER_INCH, 1000)),
                     !.calls = @ \cup {IF cmd.sprayOn THEN "relay.LOW" ELSE "relay.HIGH"}
                                 \cup {"X.move"}]
      [] cmd.type = "Y" ->
           [d EXCEPT !.relay = IF cmd.sprayOn THEN "LOW" ELSE "HIGH",
                     !.y = Move(@, Trunc(cmd.value * Y_STEPS_PER_INCH, 1000)),
                     !.calls = @ \cup {IF cmd.sprayOn THEN "relay.LOW" ELSE "relay.HIGH"}
                                 \cup {"Y.move"}]
      [] cmd.type = "R" ->
           [d EXCEPT !.r = Move(@, Trunc(cmd.value * ROTATION_NUM, ROTATION_DEN)),
                     !.calls = @ \cup {"R.move"}]
      [] cmd.type = "S" ->
           [d EXCEPT !.relay = IF cmd.sprayOn THEN "LOW" ELSE "HIGH",
                     !.calls = @ \cup {IF cmd.sprayOn THEN "relay.LOW" ELSE "relay.HIGH"}]
      [] OTHER -> d

\* executeCommand with a rotation that also switches the spray off
executeCommandRotateSpraysOff(cmd, d) ==
    CASE cmd.type = "X" ->
           [d EXCEPT !.relay = IF cmd.sprayOn THEN "LOW" ELSE @,
                     !.x = Move(@, Trunc(cmd.value * X_STEPS_PER_INCH, 1000)),
                     !.calls = @ \cup (IF cmd.sprayOn THEN {"relay.LOW"} ELSE {})
                                 \cup {"X.move"}]
      [] cmd.type = "Y" ->
           [d EXCEPT !.relay = IF cmd.sprayOn THEN "LOW" ELSE @,
                     !.y = Move(@, Trunc(cmd.value * Y_STEPS_PER_INCH, 1000)),
                     !.calls = @ \cup (IF cmd.sprayOn THEN {"relay.LOW"} ELSE {})
                                 \cup {"Y.move"}]
      [] cmd.type = "R" ->
           [d EXCEPT !.relay = "HIGH",
                     !.r = Move(@, Trunc(cmd.value * ROTATION_NUM, ROTATION_DEN)),
                     !.calls = @ \cup {"relay.HIGH", "R.move"}]
      [] cmd.type = "S" ->
           [d EXCEPT !.relay = IF cmd.sprayOn THEN "LOW" ELSE "HIGH",
                     !.calls = @ \cup {IF cmd.sprayOn THEN "relay.LOW" ELSE "relay.HIGH"}]
      [] OTHER -> d

executeCommand(cmd, d) ==
    CASE cmd.type = "X" ->
           [d EXCEPT !.relay = IF cmd.sprayOn THEN "LOW" ELSE @,
                     !.x = Move(@, Trunc(cmd.value * X_STEPS_PER_INCH, 1000)),
                     !.calls = @ \cup (IF cmd.sprayOn THEN {"relay.LOW"} ELSE {})
                                 \cup {"X.move"}]
      [] cmd.type = "Y" ->
           [d EXCEPT !.relay = IF cmd.sprayOn THEN "LOW" ELSE @,
                     !.y = Move(@, Trunc(cmd.value * Y_STEPS_PER_INCH, 1000)),
                     !.calls = @ \cup (IF cmd.sprayOn THEN {"relay.LOW"} ELSE {})
                                 \cup {"Y.move"}]
      [] cmd.type = "R" ->
           [d EXCEPT !.r = Move(@, Trunc(cmd.value * ROTATION_NUM, ROTATION_DEN)),
                     !.calls = @ \cup {"R.move"}]
      [] cmd.type = "S" ->
           [d EXCEPT !.relay = IF cmd.sprayOn THEN "LOW" ELSE "HIGH",
                     !.calls = @ \cup {IF cmd.sprayOn THEN "relay.LOW" ELSE "relay.HIGH"}]
      [] OTHER -> d

-----------------------------------------------------------------------------
(* parseSideSelection (lines 377-390) *)

Ascii(c) ==
    CASE c = "0" -> 48 [] c = "1" -> 49 [] c = "2" -> 50 [] c = "3" -> 51
      [] c = "4" -> 52 [] c = "9" -> 57
      [] c = "E" -> 69 [] c = "H" -> 72 [] c = "R" -> 82 [] c = "S" -> 83
      [] c = "e" -> 101 [] c = "h" -> 104 [] c = "r" -> 114 [] c = "s" -> 115
      [] c = "x" -> 120

AllFalse == [i \in 0..(NUM_SIDES - 1) |-> FALSE]

\* the second loop, from character i (1-based here) on
RECURSIVE ParseFrom(_, _, _)
ParseFrom(line, i, sides) ==
    IF i > Len(line) THEN sides
    ELSE LET side == Ascii(line[i]) - ASCII_ZERO
         IN  ParseFrom(line, i + 1,
                       IF side >= 1 /\ side <= 4
                       THEN [sides EXCEPT ![side - 1] = TRUE]
                       ELSE sides)

\* parseSideSelection with the first loop (the reset) forgotten
parseSideSelectionNoReset(line) == ParseFrom(line, 1, sidesToPaint)

parseSideSelection(line) == ParseFrom(line, 1, AllFalse)

-----------------------------------------------------------------------------
(* processPattern (lines 392-444) *)

\* SkipSides without the skip: unselected sides are painted too
SkipNoSides(side, cmd, sides) == [side |-> side, cmd |-> cmd]

\* the while loop of lines 398-401
RECURSIVE SkipSides(_, _, _)
SkipSides(side, cmd, sides) ==
    IF side < NUM_SIDES /\ ~sides[side]
    THEN SkipSides(side + 1, 0, sides)
    ELSE [side |-> side, cmd |-> cmd]

-----------------------------------------------------------------------------
(* Operator lines, after trim(). A line is a sequence of characters.       *)

Lines == { <<>>,
           <<"H">>, <<"h">>, <<"S">>, <<"s">>, <<"E">>, <<"e">>, <<"R">>, <<"r">>,
           <<"0">>,
           <<"1", "3">>, <<"1", "1", "3", "3">>, <<"2", "4">>, <<"4", "x", "2">>,
           <<"0", "0">> }

IsHome(line)      == Len(line) = 1 /\ line[1] \in {"H", "h"}
IsStart(line)     == Len(line) = 1 /\ line[1] \in {"S", "s"}
IsEmergency(line) == Len(line) = 1 /\ line[1] \in {"E", "e"}
IsReset(line)     == Len(line) = 1 /\ line[1] \in {"R", "r"}
\* the selection branch taken for every non-empty line
IsSelectionFromOne(line) == Len(line) >= 1
IsSelection(line) == Len(line) >= 2

-----------------------------------------------------------------------------
Init ==
    /\ systemState = "IDLE"
    /\ motorsRunning = FALSE
    /\ currentSide = 0
    /\ currentCommand = 0
    /\ sidesToPaint = [i \in 0..(NUM_SIDES - 1) |-> TRUE]
    /\ stepperX = Stepper(0, 0)
    /\ stepperY = Stepper(0, 0)
    /\ stepperRotation = Stepper(0, 0)
    /\ paintRelay = "HIGH"
    /\ input = <<>>
    /\ pc = "poll"
    /\ issued = {}
    /\ cycleLog = <<>>
    /\ cycleClean = FALSE

-----------------------------------------------------------------------------
(* loop(), lines 447-456 *)

\* Poll with stepperRotation.isRunning() (line 452) left out of motorsRunning
PollForgetsRotation ==
    /\ pc = "poll"
    /\ pc' = "serial"
    /\ motorsRunning' = (IsRunning(stepperX) \/ IsRunning(stepperY))
    /\ \E dx, dy, dr \in BOOLEAN :
          /\ stepperX' = Run(stepperX, dx)
          /\ stepperY' = Run(stepperY, dy)
          /\ stepperRotation' = [Run(stepperRotation, dr) EXCEPT !.pos = 0]
    /\ issued' = {}
    /\ UNCHANGED <<input, systemState, currentSide, currentCommand, sidesToPaint,
                   paintRelay, cycleLog, cycleClean>>

Poll ==
    /\ pc = "poll"
    /\ pc' = "serial"
    /\ motorsRunning' = (IsRunning(stepperX) \/ IsRunning(stepperY)
                            \/ IsRunning(stepperRotation))
    /\ \E dx, dy, dr \in BOOLEAN :
          /\ stepperX' = Run(stepperX, dx)
          /\ stepperY' = Run(stepperY, dy)
          \* the rotation position is never read: only its distance to go is kept
          /\ stepperRotation' = [Run(stepperRotation, dr) EXCEPT !.pos = 0]
    /\ issued' = {}
    /\ UNCHANGED <<input, systemState, currentSide, currentCommand, sidesToPaint,
                   paintRelay, cycleLog, cycleClean>>

-----------------------------------------------------------------------------
(* loop(), lines 458-509: the operator channel *)

SerialFrame == <<motorsRunning>>

\* Serial.available() is false
SerialNone ==
    /\ pc = "serial"
    /\ pc' = "switch"
    /\ input' = <<>>
    /\ UNCHANGED <<systemState, currentSide, currentCommand, sidesToPaint,
                   stepperX, stepperY, stepperRotation, paintRelay, issued,
                   cycleLog, cycleClean, SerialFrame>>

\* CmdHome with the IDLE guard dropped
CmdHomeUnguarded(line) ==
    /\ pc = "serial" /\ IsHome(line)
    /\ pc' = "switch"
    /\ input' = line
    /\ systemState' = "HOMING_X"
    /\ cycleLog' = <<>> /\ cycleClean' = FALSE
    /\ UNCHANGED <<currentSide, currentCommand, sidesToPaint,
                   stepperX, stepperY, stepperRotation, paintRelay, issued,
                   motorsRunning>>

\* lines 465-470
CmdHome(line) ==
    /\ pc = "serial" /\ IsHome(line)
    /\ pc' = "switch"
    /\ input' = line
    /\ systemState' = IF systemState = "IDLE" THEN "HOMING_X" ELSE systemState
    /\ IF systemState = "IDLE"
       THEN cycleLog' = <<>> /\ cycleClean' = FALSE
       ELSE UNCHANGED <<cycleLog, cycleClean>>
    /\ UNCHANGED <<currentSide, currentCommand, sidesToPaint,
                   stepperX, stepperY, stepperRotation, paintRelay, issued,
                   SerialFrame>>

\* CmdStart with the HOMED_WAITING guard dropped
CmdStartUnguarded(line) ==
    /\ pc = "serial" /\ IsStart(line)
    /\ pc' = "switch"
    /\ input' = line
    /\ currentSide' = 0
    /\ currentCommand' = 0
    /\ systemState' = "EXECUTING_PATTERN"
    /\ cycleLog' = <<>>
    /\ cycleClean' = TRUE
    /\ UNCHANGED <<sidesToPaint, stepperX, stepperY, stepperRotation,
                   paintRelay, issued, motorsRunning>>

\* CmdStart with the reset of the cursor (lines 475-476) forgotten
CmdStartNoCursorReset(line) ==
    /\ pc = "serial" /\ IsStart(line)
    /\ pc' = "switch"
    /\ input' = line
    /\ IF systemState = "HOMED_WAITING"
       THEN /\ systemState' = "EXECUTING_PATTERN"
            /\ cycleLog' = <<>>
            /\ cycleClean' = TRUE
       ELSE UNCHANGED <<systemState, cycleLog, cycleClean>>
    /\ UNCHANGED <<currentSide, currentCommand, sidesToPaint, stepperX, stepperY,
                   stepperRotation, paintRelay, issued, SerialFrame>>

\* lines 472-479
CmdStart(line) ==
    /\ pc = "serial" /\ IsStart(line)
    /\ pc' = "switch"
    /\ input' = line
    /\ IF systemState = "HOMED_WAITING"
       THEN /\ currentSide' = 0
            /\ currentCommand' = 0
            /\ systemState' = "EXECUTING_PATTERN"
            /\ cycleLog' = <<>>
            /\ cycleClean' = TRUE
       ELSE UNCHANGED <<currentSide, currentCommand, systemState,
                        cycleLog, cycleClean>>
    /\ UNCHANGED <<sidesToPaint, stepperX, stepperY, stepperRotation,
                   paintRelay, issued, SerialFrame>>

\* CmdEmergency with stepperRotation.stop() forgotten
CmdEmergencyNoRotationStop(line) ==
    /\ pc = "serial" /\ IsEmergency(line)
    /\ pc' = "switch"
    /\ input' = line
    /\ systemState' = "ERROR"
    /\ paintRelay' = "HIGH"
    /\ stepperX' = Stop(stepperX)
    /\ stepperY' = Stop(stepperY)
    /\ issued' = issued \cup {"relay.HIGH", "X.stop", "Y.stop"}
    /\ cycleLog' = <<>>
    /\ cycleClean' = FALSE
    /\ UNCHANGED <<currentSide, currentCommand, sidesToPaint, stepperRotation,
                   motorsRunning>>

\* CmdEmergency with the assignment systemState = ERROR (line 483) forgotten
CmdEmergencyKeepsState(line) ==
    /\ pc = "serial" /\ IsEmergency(line)
    /\ pc' = "switch"
    /\ input' = line
    /\ paintRelay' = "HIGH"
    /\ stepperX' = Stop(stepperX)
    /\ stepperY' = Stop(stepperY)
    /\ stepperRotation' = Stop(stepperRotation)
    /\ issued' = issued \cup {"relay.HIGH", "X.stop", "Y.stop", "R.stop"}
    /\ cycleLog' = <<>>
    /\ cycleClean' = FALSE
    /\ UNCHANGED <<systemState, currentSide, currentCommand, sidesToPaint,
                   SerialFrame>>

\* lines 481-488
CmdEmergency(line) ==
    /\ pc = "serial" /\ IsEmergency(line)
    /\ pc' = "switch"
    /\ input' = line
    /\ systemState' = "ERROR"
    /\ paintRelay' = "HIGH"
    /\ stepperX' = Stop(stepperX)
    /\ stepperY' = Stop(stepperY)
    /\ stepperRotation' = Stop(stepperRotation)
    /\ issued' = issued \cup {"relay.HIGH", "X.stop", "Y.stop", "R.stop"}
    /\ cycleLog' = <<>>
    /\ cycleClean' = FALSE
    /\ UNCHANGED <<currentSide, currentCommand, sidesToPaint, SerialFrame>>

\* CmdReset returning to HOMED_WAITING, skipping the re-home
CmdResetToHomed(line) ==
    /\ pc = "serial" /\ IsReset(line)
    /\ pc' = "switch"
    /\ input' = line
    /\ systemState' = IF systemState = "ERROR" THEN "HOMED_WAITING" ELSE systemState
    /\ UNCHANGED <<currentSide, currentCommand, sidesToPaint,
                   stepperX, stepperY, stepperRotation, paintRelay, issued,
                   cycleLog, cycleClean, motorsRunning>>

\* CmdReset that also restores the selection of all four sides
CmdResetRestoresSelection(line) ==
    /\ pc = "serial" /\ IsReset(line)
    /\ pc' = "switch"
    /\ input' = line
    /\ systemState' = IF systemState = "ERROR" THEN "IDLE" ELSE systemState
    /\ sidesToPaint' = IF systemState = "ERROR"
                       THEN [i \in 0..(NUM_SIDES - 1) |-> TRUE]
                       ELSE sidesToPaint
    /\ UNCHANGED <<currentSide, currentCommand,
                   stepperX, stepperY, stepperRotation, paintRelay, issued,
                   cycleLog, cycleClean, motorsRunning>>

\* lines 490-495
CmdReset(line) ==
    /\ pc = "serial" /\ IsReset(line)
    /\ pc' = "switch"
    /\ input' = line
    /\ systemState' = IF systemState = "ERROR" THEN "IDLE" ELSE systemState
    /\ UNCHANGED <<currentSide, currentCommand, sidesToPaint,
                   stepperX, stepperY, stepperRotation, paintRelay, issued,
                   cycleLog, cycleClean, SerialFrame>>

\* a line of length 0, or of length 1 that no case of the switch matches
CmdOther(line) ==
    /\ pc = "serial"
    /\ Len(line) < 2
    /\ ~IsHome(line) /\ ~IsStart(line) /\ ~IsEmergency(line) /\ ~IsReset(line)
    /\ pc' = "switch"
    /\ input' = line
    /\ UNCHANGED <<systemState, currentSide, currentCommand, sidesToPaint,
                   stepperX, stepperY, stepperRotation, paintRelay, issued,
                   cycleLog, cycleClean, SerialFrame>>

\* lines 497-508
SelectSides(line) ==
    /\ pc = "serial" /\ IsSelection(line)
    /\ pc' = "switch"
    /\ input' = line
    /\ sidesToPaint' = parseSideSelection(line)
    /\ IF systemState = "EXECUTING_PATTERN" /\ sidesToPaint' # sidesToPaint
       THEN cycleLog' = <<>> /\ cycleClean' = FALSE
       ELSE UNCHANGED <<cycleLog, cycleClean>>
    /\ UNCHANGED <<systemState, currentSide, currentCommand,
                   stepperX, stepperY, stepperRotation, paintRelay, issued,
                   SerialFrame>>

SerialFrom(lines) ==
    \/ SerialNone
    \/ \E line \in lines :
          \/ CmdHome(line)
          \/ CmdStart(line)
          \/ CmdEmergency(line)
          \/ CmdReset(line)
          \/ CmdOther(line)
          \/ SelectSides(line)

-----------------------------------------------------------------------------
(* processPattern (lines 392-444): the state, the cursor and the devices   *)
(* it leaves, and in ran the <<side, index>> it handed to executeCommand    *)

(* processPattern with the test of motorsRunning (line 396) left out *)
processPatternUngated ==
    LET same == [state |-> systemState, side |-> currentSide,
                 cmd |-> currentCommand, dev |-> Devices, ran |-> <<>>]
        cur  == SkipSides(currentSide, currentCommand, sidesToPaint)
    IN  IF cur.side >= NUM_SIDES
        THEN [same EXCEPT !.state = "CYCLE_COMPLETE",
                          !.side = cur.side, !.cmd = cur.cmd]
        ELSE IF cur.cmd < PatternSize(cur.side)
        THEN [same EXCEPT !.side = cur.side, !.cmd = cur.cmd + 1,
                          !.dev = executeCommand(PatternOf(cur.side)[cur.cmd + 1],
                                                 Devices),
                          !.ran = << <<cur.side, cur.cmd>> >>]
        ELSE [same EXCEPT !.side = cur.side + 1, !.cmd = 0]

(* processPattern with currentCommand = 0 (line 440) forgotten at the end  *)
(* of a side                                                               *)
processPatternNoReset ==
    LET same == [state |-> systemState, side |-> currentSide,
                 cmd |-> currentCommand, dev |-> Devices, ran |-> <<>>]
        cur  == SkipSides(currentSide, currentCommand, sidesToPaint)
    IN  IF motorsRunning THEN same
        ELSE IF cur.side >= NUM_SIDES
        THEN [same EXCEPT !.state = "CYCLE_COMPLETE",
                          !.side = cur.side, !.cmd = cur.cmd]
        ELSE IF cur.cmd < PatternSize(cur.side)
        THEN [same EXCEPT !.side = cur.side, !.cmd = cur.cmd + 1,
                          !.dev = executeCommand(PatternOf(cur.side)[cur.cmd + 1],
                                                 Devices),
                          !.ran = << <<cur.side, cur.cmd>> >>]
        ELSE [same EXCEPT !.side = cur.side + 1]

processPattern ==
    LET same == [state |-> systemState, side |-> currentSide,
                 cmd |-> currentCommand, dev |-> Devices, ran |-> <<>>]
        cur  == SkipSides(currentSide, currentCommand, sidesToPaint)
    IN  IF motorsRunning THEN same
        ELSE IF cur.side >= NUM_SIDES
        THEN [same EXCEPT !.state = "CYCLE_COMPLETE",
                          !.side = cur.side, !.cmd = cur.cmd]
        ELSE IF cur.cmd < PatternSize(cur.side)
        THEN [same EXCEPT !.side = cur.side, !.cmd = cur.cmd + 1,
                          !.dev = executeCommand(PatternOf(cur.side)[cur.cmd + 1],
                                                 Devices),
                          !.ran = << <<cur.side, cur.cmd>> >>]
        ELSE [same EXCEPT !.side = cur.side + 1, !.cmd = 0]

-----------------------------------------------------------------------------
(* loop(), lines 511-550: the state-dependent action *)

SwitchFrame == <<motorsRunning, sidesToPaint>>

\* IDLE, HOMED_WAITING, ERROR: break
SwNothing ==
    /\ pc = "switch"
    /\ systemState \in {"IDLE", "HOMED_WAITING", "ERROR"}
    /\ pc' = "poll"
    /\ input' = <<>>
    /\ UNCHANGED <<systemState, currentSide, currentCommand,
                   stepperX, stepperY, stepperRotation, paintRelay, issued,
                   cycleLog, cycleClean, SwitchFrame>>

\* HomingX with the test of stepperX.isRunning() (line 519) left out
HomingXAlwaysMoves(xHomeSensor) ==
    /\ pc = "switch"
    /\ systemState = "HOMING_X"
    /\ pc' = "poll"
    /\ input' = <<>>
    /\ IF ~xHomeSensor
       THEN /\ stepperX' = SetCurrentPosition(stepperX, 0)
            /\ systemState' = "HOMING_Y"
            /\ issued' = issued \cup {"X.sensor.LOW", "X.zero"}
       ELSE /\ stepperX' = MoveTo(stepperX, -HOMING_TARGET)
            /\ issued' = issued \cup {"X.sensor.HIGH", "X.moveTo"}
            /\ UNCHANGED systemState
    /\ UNCHANGED <<currentSide, currentCommand, stepperY, stepperRotation,
                   paintRelay, cycleLog, cycleClean, SwitchFrame>>

\* lines 515-522
HomingX(xHomeSensor) ==
    /\ pc = "switch"
    /\ systemState = "HOMING_X"
    /\ pc' = "poll"
    /\ input' = <<>>
    /\ IF ~xHomeSensor
       THEN /\ stepperX' = SetCurrentPosition(stepperX, 0)
            /\ systemState' = "HOMING_Y"
            /\ issued' = issued \cup {"X.sensor.LOW", "X.zero"}
       ELSE IF ~IsRunning(stepperX)
       THEN /\ stepperX' = MoveTo(stepperX, -HOMING_TARGET)
            /\ issued' = issued \cup {"X.sensor.HIGH", "X.moveTo"}
            /\ UNCHANGED systemState
       ELSE /\ issued' = issued \cup {"X.sensor.HIGH"}
            /\ UNCHANGED <<stepperX, systemState>>
    /\ UNCHANGED <<currentSide, currentCommand, stepperY, stepperRotation,
                   paintRelay, cycleLog, cycleClean, SwitchFrame>>

\* HomingY with setCurrentPosition(0) forgotten
HomingYNoZero(yHomeSensor) ==
    /\ pc = "switch"
    /\ systemState = "HOMING_Y"
    /\ pc' = "poll"
    /\ input' = <<>>
    /\ IF ~yHomeSensor
       THEN /\ systemState' = "HOMED_WAITING"
            /\ issued' = issued \cup {"Y.sensor.LOW"}
            /\ UNCHANGED stepperY
       ELSE IF ~IsRunning(stepperY)
       THEN /\ stepperY' = MoveTo(stepperY, -HOMING_TARGET)
            /\ issued' = issued \cup {"Y.sensor.HIGH", "Y.moveTo"}
            /\ UNCHANGED systemState
       ELSE /\ issued' = issued \cup {"Y.sensor.HIGH"}
            /\ UNCHANGED <<stepperY, systemState>>
    /\ UNCHANGED <<currentSide, currentCommand, stepperX, stepperRotation,
                   paintRelay, cycleLog, cycleClean, SwitchFrame>>

\* lines 524-532
HomingY(yHomeSensor) ==
    /\ pc = "switch"
    /\ systemState = "HOMING_Y"
    /\ pc' = "poll"
    /\ input' = <<>>
    /\ IF ~yHomeSensor
       THEN /\ stepperY' = SetCurrentPosition(stepperY, 0)
            /\ systemState' = "HOMED_WAITING"
            /\ issued' = issued \cup {"Y.sensor.LOW", "Y.zero"}
       ELSE IF ~IsRunning(stepperY)
       THEN /\ stepperY' = MoveTo(stepperY, -HOMING_TARGET)
            /\ issued' = issued \cup {"Y.sensor.HIGH", "Y.moveTo"}
            /\ UNCHANGED systemState
       ELSE /\ issued' = issued \cup {"Y.sensor.HIGH"}
            /\ UNCHANGED <<stepperY, systemState>>
    /\ UNCHANGED <<currentSide, currentCommand, stepperX, stepperRotation,
                   paintRelay, cycleLog, cycleClean, SwitchFrame>>

\* lines 537-539
SwExecuting ==
    /\ pc = "switch"
    /\ systemState = "EXECUTING_PATTERN"
    /\ pc' = "poll"
    /\ input' = <<>>
    /\ LET res == processPattern
       IN  /\ systemState' = res.state
           /\ currentSide' = res.side
           /\ currentCommand' = res.cmd
           /\ stepperX' = res.dev.x
           /\ stepperY' = res.dev.y
           /\ stepperRotation' = res.dev.r
           /\ paintRelay' = res.dev.relay
           /\ issued' = res.dev.calls
           /\ cycleLog' = IF cycleClean THEN cycleLog \o res.ran ELSE cycleLog
    /\ UNCHANGED <<cycleClean, SwitchFrame>>

\* SwCycleComplete with the test of motorsRunning (line 545) inverted
SwCycleCompleteInverted ==
    /\ pc = "switch"
    /\ systemState = "CYCLE_COMPLETE"
    /\ pc' = "poll"
    /\ input' = <<>>
    /\ systemState' = IF motorsRunning THEN "IDLE" ELSE systemState
    /\ UNCHANGED <<currentSide, currentCommand,
                   stepperX, stepperY, stepperRotation, paintRelay, issued,
                   cycleLog, cycleClean, SwitchFrame>>

\* lines 544-549
SwCycleComplete ==
    /\ pc = "switch"
    /\ systemState = "CYCLE_COMPLETE"
    /\ pc' = "poll"
    /\ input' = <<>>
    /\ systemState' = IF ~motorsRunning THEN "IDLE" ELSE systemState
    /\ UNCHANGED <<currentSide, currentCommand,
                   stepperX, stepperY, stepperRotation, paintRelay, issued,
                   cycleLog, cycleClean, SwitchFrame>>

Switch ==
    \/ SwNothing
    \/ \E level \in BOOLEAN : HomingX(level)
    \/ \E level \in BOOLEAN : HomingY(level)
    \/ SwExecuting
    \/ SwCycleComplete

Serial == SerialFrom(Lines)

Next == Poll \/ Serial \/ Switch

Spec == Init /\ [][Next]_vars

TypeOK ==
    /\ systemState \in States
    /\ motorsRunning \in BOOLEAN
    /\ currentSide \in 0..NUM_SIDES
    /\ currentCommand \in 0..SIDE1_SIZE
    /\ sidesToPaint \in [0..(NUM_SIDES - 1) -> BOOLEAN]
    /\ paintRelay \in {"LOW", "HIGH"}
    /\ pc \in {"poll", "serial", "switch"}

-----------------------------------------------------------------------------
(* The loop keeps running, and a home sensor that keeps being read while   *)
(* its axis is homed eventually reads triggered.                           *)

\* For the liveness checks the operator writes each command in one spelling
\* and selects sides 2 and 4 or none: letter case and repeated digits reach
\* neither the state machine nor the steppers differently.
LiveLines == { <<"H">>, <<"S">>, <<"e">>, <<"R">>, <<"0">>, <<"2", "4">>, <<"0", "0">> }

LiveNext == Poll \/ SerialFrom(LiveLines) \/ Switch

Fairness ==
    /\ WF_vars(LiveNext)
    /\ SF_vars(HomingX(FALSE))
    /\ SF_vars(HomingY(FALSE))

LiveSpec == Init /\ [][LiveNext]_vars /\ Fairness

(* Every commanded motion completes: the top of the tick in which run()    *)
(* finds a step due on every stepper that still has steps to go keeps      *)
(* happening.                                                              *)

PollDue ==
    /\ Poll
    /\ stepperX' = Run(stepperX, TRUE)
    /\ stepperY' = Run(stepperY, TRUE)
    /\ stepperRotation'.togo = Run(stepperRotation, TRUE).togo

CycleFairness ==
    /\ WF_vars(LiveNext)
    /\ SF_vars(PollDue)

CycleSpec == Init /\ [][LiveNext]_vars /\ CycleFairness

-----------------------------------------------------------------------------
(* Vocabulary of the properties *)

SprayAsserted == paintRelay = "LOW"
AllStopped == ~IsRunning(stepperX) /\ ~IsRunning(stepperY) /\ ~IsRunning(stepperRotation)
Selection(set) == [i \in 0..(NUM_SIDES - 1) |-> (i + 1) \in set]
Control == <<systemState, currentSide, currentCommand, sidesToPaint, paintRelay>>

\* the step that consumes a line, and the step that ends a tick
Consumes == pc = "serial" /\ pc' = "switch"
EndsTick == pc = "switch" /\ pc' = "poll"

\* the state is entered from another one; the state goes from one to another
Enters(state) == systemState # state /\ systemState' = state
Goes(from, to) == systemState = from /\ systemState' = to

-----------------------------------------------------------------------------
(* C1: in whatever state the emergency command is consumed, the tick that  *)
(* consumed it ends in ERROR with the spray relay deasserted and stop()    *)
(* issued to X, Y and the rotation stepper. Checked on both steps of the   *)
(* tick after the line is read: the state the command leaves, and the      *)
(* state the switch leaves at the end of the tick.                         *)

EmergencyHolds ==
    /\ systemState = "ERROR"
    /\ ~SprayAsserted
    /\ {"X.stop", "Y.stop", "R.stop"} \subseteq issued

C1_EmergencyStopsEverything ==
    [][ /\ (Consumes /\ IsEmergency(input')) => EmergencyHolds'
        /\ (EndsTick /\ IsEmergency(input)) => EmergencyHolds' ]_vars

\* the tick of an emergency consumed while a spraying X move was under way has ended
C1_Witness ==
    /\ pc = "poll"
    /\ EmergencyHolds
    /\ IsRunning(stepperX)
    /\ currentCommand > 0
    /\ PatternOf(currentSide)[currentCommand].sprayOn

-----------------------------------------------------------------------------
(* C2: 'home' consumed outside IDLE, 'start' consumed outside              *)
(* HOMED_WAITING and 'reset' consumed outside ERROR change neither the     *)
(* state, nor the cursor, nor the side selection, nor the spray relay.     *)

OutOfState(line, state) ==
    \/ IsHome(line) /\ state # "IDLE"
    \/ IsStart(line) /\ state # "HOMED_WAITING"
    \/ IsReset(line) /\ state # "ERROR"

C2_GuardedCommandsDropped ==
    [][ (Consumes /\ OutOfState(input', systemState)) => UNCHANGED Control ]_vars

\* 'start' was consumed in the middle of a pattern, with the spray on
C2_Witness ==
    /\ pc = "switch"
    /\ IsStart(input)
    /\ systemState = "EXECUTING_PATTERN"
    /\ currentCommand > 1
    /\ SprayAsserted

-----------------------------------------------------------------------------
(* C3: once 'home' has been consumed in IDLE the system reaches            *)
(* HOMED_WAITING unless an emergency takes it to ERROR; HOMING_Y is        *)
(* entered only from HOMING_X, in the tick the X sensor read triggered and *)
(* with X's position set to zero in that tick; HOMED_WAITING is entered    *)
(* only from HOMING_Y, in a later tick, the one in which the Y sensor read *)
(* triggered, with Y's position set to zero and X still at its zero.       *)

C3_HomingTerminates ==
    /\ (systemState = "HOMING_X") ~> (systemState \in {"HOMED_WAITING", "ERROR"})
    /\ [][ /\ Enters("HOMING_Y") =>
                /\ systemState = "HOMING_X" /\ EndsTick
                /\ "X.sensor.LOW" \in issued'
                /\ stepperX' = Stepper(0, 0)
           /\ Enters("HOMED_WAITING") =>
                /\ systemState = "HOMING_Y" /\ EndsTick
                /\ "Y.sensor.LOW" \in issued'
                /\ "X.zero" \notin issued'
                /\ stepperY' = Stepper(0, 0)
                /\ stepperX' = Stepper(0, 0)
           /\ (EndsTick /\ "X.sensor.LOW" \in issued') => Enters("HOMING_Y")
           /\ (EndsTick /\ "Y.sensor.LOW" \in issued') => Enters("HOMED_WAITING") ]_vars

\* homing ended in HOMED_WAITING after an emergency stop had left the cursor
\* in the middle of a pattern
C3_Witness ==
    /\ pc = "poll"
    /\ systemState = "HOMED_WAITING"
    /\ "Y.sensor.LOW" \in issued
    /\ currentSide < NUM_SIDES
    /\ currentCommand > 0

-----------------------------------------------------------------------------
(* C4: in a cycle whose selection does not change and that no emergency    *)
(* interrupts, the commands handed to executeCommand are, at every moment, *)
(* a prefix of the patterns of the selected sides laid end to end in side  *)
(* order, and the whole of it when the state becomes CYCLE_COMPLETE;       *)
(* CYCLE_COMPLETE is entered only from EXECUTING_PATTERN and never goes    *)
(* back to it.                                                             *)

SideRun(side) == [i \in 1..Len(PatternOf(side)) |-> <<side, i - 1>>]

ExpectedRun(sides) ==
    (IF sides[0] THEN SideRun(0) ELSE <<>>) \o (IF sides[1] THEN SideRun(1) ELSE <<>>)
        \o (IF sides[2] THEN SideRun(2) ELSE <<>>) \o (IF sides[3] THEN SideRun(3) ELSE <<>>)

IsPrefix(s, u) == Len(s) <= Len(u) /\ SubSeq(u, 1, Len(s)) = s

C4_CycleRunsSelectedPatternsInOrder ==
    /\ []((systemState = "EXECUTING_PATTERN" /\ cycleClean) =>
             IsPrefix(cycleLog, ExpectedRun(sidesToPaint)))
    /\ [][ /\ (Enters("CYCLE_COMPLETE") /\ cycleClean) =>
                cycleLog' = ExpectedRun(sidesToPaint)
           /\ Enters("CYCLE_COMPLETE") => systemState = "EXECUTING_PATTERN"
           /\ systemState = "CYCLE_COMPLETE" => systemState' # "EXECUTING_PATTERN" ]_vars

\* a cycle over sides 1 and 3 has just completed
C4_Witness ==
    /\ pc = "poll"
    /\ systemState = "CYCLE_COMPLETE"
    /\ cycleClean
    /\ sidesToPaint = Selection({1, 3})
    /\ Len(cycleLog) = SIDE1_SIZE + SIDE3_SIZE

-----------------------------------------------------------------------------
(* C5: with sides 2 and 4 selected, a cycle that runs undisturbed makes    *)
(* exactly Len(SIDE2_PATTERN) + Len(SIDE4_PATTERN) calls of executeCommand *)
(* and none that indexes SIDE1_PATTERN or SIDE3_PATTERN; it then goes from *)
(* EXECUTING_PATTERN to CYCLE_COMPLETE, and from there, short of an        *)
(* emergency, only to IDLE and only with all three steppers stopped.       *)

OnlySides(log, allowed) == \A k \in 1..Len(log) : log[k][1] \in allowed

C5_Cycle24EndToEnd ==
    /\ []((systemState = "EXECUTING_PATTERN" /\ cycleClean
              /\ sidesToPaint = Selection({2, 4})) =>
             /\ OnlySides(cycleLog, {1, 3})
             /\ Len(cycleLog) <= Len(SIDE2_PATTERN) + Len(SIDE4_PATTERN))
    /\ [][ /\ (Goes("EXECUTING_PATTERN", "CYCLE_COMPLETE") /\ cycleClean
                  /\ sidesToPaint = Selection({2, 4})) =>
                /\ Len(cycleLog') = Len(SIDE2_PATTERN) + Len(SIDE4_PATTERN)
                /\ OnlySides(cycleLog', {1, 3})
           /\ (systemState = "EXECUTING_PATTERN" /\ cycleClean'
                  /\ systemState' # "EXECUTING_PATTERN") =>
                systemState' = "CYCLE_COMPLETE"
           /\ (systemState = "CYCLE_COMPLETE" /\ systemState' # "CYCLE_COMPLETE"
                  /\ ~(Consumes /\ IsEmergency(input'))) =>
                /\ systemState' = "IDLE" /\ EndsTick
                /\ AllStopped'
                /\ UNCHANGED cycleLog ]_vars

\* the cycle over sides 2 and 4 is over and the machine is back in IDLE
C5_Witness ==
    /\ pc = "poll"
    /\ systemState = "IDLE"
    /\ cycleClean
    /\ sidesToPaint = Selection({2, 4})
    /\ Len(cycleLog) = Len(SIDE2_PATTERN) + Len(SIDE4_PATTERN)
    /\ AllStopped

-----------------------------------------------------------------------------
(* C6: a move of X or Y with sprayOn leaves the spray relay asserted in    *)
(* the tick that issues it, and the relay, once asserted, is deasserted    *)
(* only by an executed SPRAY_OFF or by the emergency command: not by the   *)
(* end of the move, nor by a later move or rotation without spray.         *)

\* the command the cursor has just passed
LastCmd == PatternOf(currentSide)[currentCommand]

\* the switch of this tick handed a command to executeCommand
Executes == EndsTick /\ systemState = "EXECUTING_PATTERN" /\ issued' # issued

C6_SprayStaysOnUntilSprayOff ==
    [][ /\ (Executes /\ LastCmd'.type \in {"X", "Y"} /\ LastCmd'.sprayOn) =>
             /\ SprayAsserted'
             /\ (IF LastCmd'.type = "X" THEN "X.move" ELSE "Y.move") \in issued'
        /\ (SprayAsserted /\ ~SprayAsserted') =>
             \/ Consumes /\ IsEmergency(input')
             \/ Executes /\ LastCmd' = SPRAY_OFF ]_vars

\* a Y move without spray was issued with the relay asserted, and it still is
C6_Witness ==
    /\ pc = "poll"
    /\ systemState = "EXECUTING_PATTERN"
    /\ currentCommand > 0
    /\ LastCmd.type = "Y" /\ ~LastCmd.sprayOn
    /\ "Y.move" \in issued
    /\ SprayAsserted

-----------------------------------------------------------------------------
(* C7: a line of two or more characters selects exactly the sides whose    *)
(* digit 1..4 occurs in it, whatever was selected before.                  *)

Digit == <<"1", "2", "3", "4">>
Occurs(c, line) == \E k \in 1..Len(line) : line[k] = c

C7_SelectionIsTheDigitsPresent ==
    [][ (Consumes /\ Len(input') >= 2) =>
          /\ \A i \in 0..3 : sidesToPaint'[i] <=> Occurs(Digit[i + 1], input')
          /\ input' = <<"1", "3">> => sidesToPaint' = Selection({1, 3})
          /\ input' = <<"1", "1", "3", "3">> => sidesToPaint' = Selection({1, 3})
          /\ (\A i \in 0..3 : ~Occurs(Digit[i + 1], input')) =>
                 sidesToPaint' = Selection({}) ]_vars

\* "1133" was consumed during a cycle started with another selection
C7_Witness ==
    /\ pc = "switch"
    /\ input = <<"1", "1", "3", "3">>
    /\ sidesToPaint = Selection({1, 3})
    /\ systemState = "EXECUTING_PATTERN"
    /\ currentSide = 1

-----------------------------------------------------------------------------
(* C8 as stated: after the line "0" is consumed all four sides are         *)
(* unselected.                                                             *)

C8_ZeroClearsSelection ==
    (pc = "switch" /\ input = <<"0">>) => sidesToPaint = Selection({})

(* C8 as amended: the line "0" has one character, takes the command branch *)
(* and leaves the selection as it was; a line of two or more characters    *)
(* with no digit 1..4, such as "00", unselects all four sides.             *)

C8_ZeroIsNotASelection ==
    [][ /\ (Consumes /\ input' = <<"0">>) => UNCHANGED sidesToPaint
        /\ (Consumes /\ input' = <<"0", "0">>) => sidesToPaint' = Selection({}) ]_vars

\* "0" was consumed and sides 2 and 4 are still selected
C8_Witness ==
    /\ pc = "switch"
    /\ input = <<"0">>
    /\ sidesToPaint = Selection({2, 4})

-----------------------------------------------------------------------------
(* C9: ERROR is left only by 'reset' and only to IDLE; and a pattern is    *)
(* executed again only after IDLE, HOMING_X, HOMING_Y, HOMED_WAITING in    *)
(* that order: each of these states is entered only from the one before.   *)

C9_ErrorNeedsResetAndRehome ==
    [][ /\ (systemState = "ERROR" /\ systemState' # "ERROR") =>
               Consumes /\ IsReset(input') /\ systemState' = "IDLE"
        /\ (systemState = "ERROR" /\ EndsTick /\ ~IsReset(input)) =>
               systemState' = "ERROR"
        /\ Enters("EXECUTING_PATTERN") => systemState = "HOMED_WAITING"
        /\ Enters("HOMED_WAITING") => systemState = "HOMING_Y"
        /\ Enters("HOMING_Y") => systemState = "HOMING_X"
        /\ Enters("HOMING_X") => systemState = "IDLE" ]_vars

\* 'reset' took an emergency stop in the middle of a pattern back to IDLE
C9_Witness ==
    /\ pc = "switch"
    /\ IsReset(input)
    /\ systemState = "IDLE"
    /\ currentSide < NUM_SIDES
    /\ currentCommand > 0

-----------------------------------------------------------------------------
(* C10: every change of systemState is a row of the transition table,      *)
(* taken on that row's trigger.                                            *)

C10_OnlyTableTransitions ==
    [][ systemState' # systemState =>
          \/ Goes("IDLE", "HOMING_X") /\ Consumes /\ IsHome(input')
          \/ Goes("HOMING_X", "HOMING_Y") /\ EndsTick /\ "X.sensor.LOW" \in issued'
          \/ Goes("HOMING_Y", "HOMED_WAITING") /\ EndsTick /\ "Y.sensor.LOW" \in issued'
          \/ Goes("HOMED_WAITING", "EXECUTING_PATTERN") /\ Consumes /\ IsStart(input')
          \/ systemState' = "ERROR" /\ Consumes /\ IsEmergency(input')
          \/ Goes("ERROR", "IDLE") /\ Consumes /\ IsReset(input')
          \/ Goes("EXECUTING_PATTERN", "CYCLE_COMPLETE") /\ EndsTick
                /\ currentSide' = NUM_SIDES
          \/ Goes("CYCLE_COMPLETE", "IDLE") /\ EndsTick /\ AllStopped ]_vars

\* a whole cycle went round the table and is back in IDLE
C10_Witness ==
    /\ pc = "poll"
    /\ systemState = "IDLE"
    /\ currentSide = NUM_SIDES
    /\ cycleClean
    /\ Len(cycleLog) = SIDE1_SIZE + SIDE3_SIZE

-----------------------------------------------------------------------------
(* The calls executeCommand can make on the devices, and a step of the      *)
(* state-dependent action in which it made one                              *)

ExecutorCalls == {"X.move", "Y.move", "R.move", "relay.LOW", "relay.HIGH"}

MotionCalls == {"X.move", "Y.move", "R.move"}

Cursor == <<currentSide, currentCommand>>

CommandRan == EndsTick /\ (issued' \ issued) \cap ExecutorCalls # {}

(* C11: executeCommand runs only in a tick whose state is EXECUTING_PATTERN *)
(* and in which all three axes reported no outstanding motion (and indeed   *)
(* none of them has any at the moment of the call), so no pattern command   *)
(* is issued while an earlier command is still moving; and a tick runs at   *)
(* most one pattern command: the cursor moves on by one command, at most    *)
(* one axis is commanded and the cycle log grows by at most one entry.      *)
C11_ExecuteOnlyWhenIdle ==
    [][CommandRan =>
          /\ systemState = "EXECUTING_PATTERN"
          /\ systemState' = "EXECUTING_PATTERN"
          /\ ~motorsRunning
          /\ AllStopped
          /\ currentCommand' >= 1
          /\ currentCommand' <= PatternSize(currentSide')
          /\ \/ Cursor' = <<currentSide, currentCommand + 1>>
             \/ currentSide' > currentSide /\ currentCommand' = 1
          /\ Cardinality(issued' \cap MotionCalls) <= 1
          /\ Len(cycleLog') <= Len(cycleLog) + 1]_vars

C11_Witness ==
    /\ pc = "poll"
    /\ systemState = "EXECUTING_PATTERN"
    /\ currentSide = 0
    /\ currentCommand = 3
    /\ "X.move" \in issued
    /\ "relay.LOW" \in issued
    /\ IsRunning(stepperX)

-----------------------------------------------------------------------------
(* The drivers of the outputs, told apart by the calls a tick has made      *)

EmergencyCalls == {"X.stop", "Y.stop", "R.stop"}

HomingCalls == {"X.moveTo", "X.zero", "Y.moveTo", "Y.zero"}

EmergencyActed(calls) == calls \cap EmergencyCalls # {}

HomingActed(calls) == calls \cap HomingCalls # {}

PatternActed(calls) ==
    \/ calls \cap (MotionCalls \cup {"relay.LOW"}) # {}
    \/ "relay.HIGH" \in calls /\ ~EmergencyActed(calls)

(* C12: a tick has at most one driver of the outputs: of the emergency      *)
(* path, the homing sequencer and the pattern sequencer no two act in the   *)
(* same tick. In a tick that consumed an emergency stop the state-dependent *)
(* action does nothing: no homing move, no zeroing, no pattern command, no  *)
(* change of the steppers, the relay or the cursor.                         *)
C12_OneDriverPerTick ==
    [][EndsTick =>
          /\ ~(EmergencyActed(issued') /\ HomingActed(issued'))
          /\ ~(EmergencyActed(issued') /\ PatternActed(issued'))
          /\ ~(HomingActed(issued') /\ PatternActed(issued'))
          /\ ~(HomingActed(issued') /\ CommandRan)
          /\ IsEmergency(input) =>
                /\ issued' = issued
                /\ issued = {"relay.HIGH", "X.stop", "Y.stop", "R.stop"}
                /\ UNCHANGED <<stepperX, stepperY, stepperRotation,
                               paintRelay, Cursor>>]_vars

C12_Witness ==
    /\ pc = "poll"
    /\ systemState = "ERROR"
    /\ EmergencyActed(issued)
    /\ ~motorsRunning
    /\ currentSide = 0
    /\ currentCommand = 2
    /\ sidesToPaint = Selection({1, 2, 3, 4})

-----------------------------------------------------------------------------
(* A call of processPattern that gets past the test of motorsRunning, the   *)
(* side the cursor stands on once the unselected sides are skipped (4 when  *)
(* none is left) and the command index it has there                         *)

Advances == EndsTick /\ systemState = "EXECUTING_PATTERN" /\ ~motorsRunning

SideAfterSkip ==
    LET rest == { s \in currentSide .. (NUM_SIDES - 1) : sidesToPaint[s] }
    IN  IF rest = {} THEN NUM_SIDES
        ELSE CHOOSE s \in rest : \A t \in rest : s <= t

CommandAfterSkip == IF SideAfterSkip = currentSide THEN currentCommand ELSE 0

LengthOf(side) == Len(PatternOf(side))

(* C13 as stated: every advance that finds a side left executes exactly one *)
(* command; the advance that executes the last command of a side also puts  *)
(* the cursor on <<side + 1, 0>>; and after every advance a cursor on a     *)
(* side is strictly inside that side's pattern.                             *)
C13_RolloverInSameCall ==
    [][(Advances /\ SideAfterSkip < NUM_SIDES) =>
          /\ CommandRan
          /\ CommandAfterSkip + 1 = LengthOf(SideAfterSkip)
                => Cursor' = <<SideAfterSkip + 1, 0>>
          /\ currentSide' < NUM_SIDES
                => currentCommand' < LengthOf(currentSide')]_vars

(* C13, amended: an advance that finds a side left executes exactly one     *)
(* command when the command index is inside the side's pattern, and only    *)
(* increments the index, so the advance that executes the last command      *)
(* leaves the index equal to the pattern length; the next advance executes  *)
(* nothing and puts the cursor on <<side + 1, 0>>. After every advance a    *)
(* cursor on a side has an index at most the length of that side's pattern. *)
C13_RolloverInNextCall ==
    /\ [](currentSide < NUM_SIDES => currentCommand <= LengthOf(currentSide))
    /\ [](currentSide >= NUM_SIDES => Cursor = <<NUM_SIDES, 0>>)
    /\ [][(Advances /\ SideAfterSkip < NUM_SIDES) =>
             IF CommandAfterSkip < LengthOf(SideAfterSkip)
             THEN /\ CommandRan
                  /\ Cursor' = <<SideAfterSkip, CommandAfterSkip + 1>>
             ELSE /\ issued' = issued
                  /\ Cursor' = <<SideAfterSkip + 1, 0>>
                  /\ UNCHANGED <<stepperX, stepperY, stepperRotation,
                                 paintRelay, cycleLog>>]_vars

C13_Witness ==
    /\ pc = "poll"
    /\ systemState = "EXECUTING_PATTERN"
    /\ currentSide = 2
    /\ currentCommand = SIDE3_SIZE
    /\ "R.move" \in issued

-----------------------------------------------------------------------------
(* The order of the cursor: a later side, or a later command of the side   *)

LexLess(a, b) == a[1] < b[1] \/ (a[1] = b[1] /\ a[2] < b[2])

-----------------------------------------------------------------------------
(* C15: the homing step. In a HOMING_X tick, a triggered X home sensor      *)
(* zeroes the X position and moves the state on to HOMING_Y in that tick,   *)
(* with no move issued; a clear sensor keeps the state and issues a move    *)
(* toward the far negative target exactly when X is not already moving.     *)
(* HOMING_Y does the same with Y and HOMED_WAITING. A homing tick commands  *)
(* neither the other linear axis, nor the rotation axis, nor the relay.     *)
C15_HomingStep ==
    [][(EndsTick /\ systemState \in {"HOMING_X", "HOMING_Y"}) =>
          LET onX   == systemState = "HOMING_X"
              axis  == IF onX THEN "X" ELSE "Y"
              s     == IF onX THEN stepperX ELSE stepperY
              t     == IF onX THEN stepperX' ELSE stepperY'
              other == IF onX THEN stepperY' = stepperY ELSE stepperX' = stepperX
              low   == (axis \o ".sensor.LOW") \in issued'
              high  == (axis \o ".sensor.HIGH") \in issued'
              moved == (axis \o ".moveTo") \in issued'
              zero  == (axis \o ".zero") \in issued'
          IN  /\ issued = {}
              /\ low # high
              /\ issued' \subseteq {axis \o ".sensor.LOW", axis \o ".sensor.HIGH",
                                    axis \o ".moveTo", axis \o ".zero"}
              /\ low => /\ zero /\ ~moved
                        /\ t = Stepper(0, 0)
                        /\ systemState' = (IF onX THEN "HOMING_Y" ELSE "HOMED_WAITING")
              /\ high => /\ ~zero
                         /\ systemState' = systemState
                         /\ moved <=> ~IsRunning(s)
                         /\ moved => t.pos = s.pos /\ t.togo < 0
                         /\ ~moved => t = s
              /\ other
              /\ UNCHANGED <<stepperRotation, paintRelay, Cursor, sidesToPaint>>]_vars

C15_Witness ==
    /\ pc = "poll"
    /\ systemState = "HOMING_X"
    /\ issued = {"X.sensor.HIGH"}
    /\ IsRunning(stepperX)
    /\ stepperX.togo < 0
    /\ stepperX.pos > 0

-----------------------------------------------------------------------------
(* C16: CYCLE_COMPLETE is left for IDLE only at the end of a tick in which  *)
(* motorsRunning was sampled false, and then the three steppers are in fact *)
(* idle; a CYCLE_COMPLETE tick that sampled a running axis keeps the state; *)
(* the only other way out is an emergency stop. Apart from that emergency   *)
(* stop, no step taken in CYCLE_COMPLETE calls a stepper or writes the      *)
(* relay: outside run() the steppers are left as they are.                  *)
C16_CycleCompleteWaitsForAxes ==
    /\ [][Goes("CYCLE_COMPLETE", "IDLE") =>
             EndsTick /\ ~motorsRunning /\ AllStopped]_vars
    /\ [][(EndsTick /\ systemState = "CYCLE_COMPLETE" /\ motorsRunning) =>
             systemState' = "CYCLE_COMPLETE"]_vars
    /\ [][(systemState = "CYCLE_COMPLETE" /\ systemState' # "CYCLE_COMPLETE") =>
             \/ Goes("CYCLE_COMPLETE", "IDLE")
             \/ Consumes /\ IsEmergency(input') /\ systemState' = "ERROR"]_vars
    /\ [][(systemState = "CYCLE_COMPLETE" /\ ~(Consumes /\ IsEmergency(input'))) =>
             /\ issued' \subseteq issued
             /\ paintRelay' = paintRelay
             /\ pc # "poll" => UNCHANGED <<stepperX, stepperY, stepperRotation>>]_vars

C16_Witness ==
    /\ pc = "poll"
    /\ systemState = "IDLE"
    /\ currentSide = NUM_SIDES
    /\ cycleClean
    /\ Len(cycleLog) = SIDE1_SIZE + SIDE2_SIZE + SIDE3_SIZE + SIDE4_SIZE
    /\ AllStopped

-----------------------------------------------------------------------------
(* C17: sidesToPaint is changed only by the step that consumes a line of    *)
(* two or more characters. A line of one character (home, start, emergency  *)
(* stop, reset, anything else), an empty line, the state-dependent action   *)
(* (every transition it makes, the end of a cycle included) and the top of  *)
(* the tick leave the four flags as they are.                               *)
C17_OnlySelectionInputChangesSelection ==
    /\ [][sidesToPaint' # sidesToPaint => Consumes /\ Len(input') >= 2]_vars
    /\ [][(Consumes /\ Len(input') <= 1) => sidesToPaint' = sidesToPaint]_vars
    /\ [][(systemState' # systemState) => sidesToPaint' = sidesToPaint]_vars

C17_Witness ==
    /\ pc = "switch"
    /\ IsReset(input)
    /\ systemState = "IDLE"
    /\ sidesToPaint = Selection({2, 4})
    /\ Cursor = <<3, 7>>

-----------------------------------------------------------------------------
(* A command of each kind the tables hold, with a spraying Y move and a     *)
(* rotation whose sprayOn is set added, and what one call of executeCommand *)
(* may change: d the devices before, e after                                *)

SampleCommands ==
    { MOVE_X(-4500, FALSE), MOVE_X(26000, TRUE),
      MOVE_Y(4160, FALSE), MOVE_Y(-4160, TRUE),
      ROTATE(90), Command("R", -90, TRUE), SPRAY_ON, SPRAY_OFF }

ExecutorFrame(cmd, d, e) ==
    LET new == e.calls \ d.calls
    IN  CASE cmd.type = "S" ->
               /\ e.relay = (IF cmd.sprayOn THEN "LOW" ELSE "HIGH")
               /\ e.x = d.x /\ e.y = d.y /\ e.r = d.r
               /\ new \cap MotionCalls = {}
          [] cmd.type = "R" ->
               /\ e.relay = d.relay
               /\ e.x = d.x /\ e.y = d.y
               /\ e.r.pos = d.r.pos
               /\ e.calls = d.calls \cup {"R.move"}
          [] cmd.type = "X" ->
               /\ e.relay = (IF cmd.sprayOn THEN "LOW" ELSE d.relay)
               /\ e.y = d.y /\ e.r = d.r
               /\ e.x.pos = d.x.pos
               /\ "X.move" \in e.calls
               /\ new \subseteq (IF cmd.sprayOn THEN {"relay.LOW", "X.move"}
                                                ELSE {"X.move"})
          [] cmd.type = "Y" ->
               /\ e.relay = (IF cmd.sprayOn THEN "LOW" ELSE d.relay)
               /\ e.x = d.x /\ e.r = d.r
               /\ e.y.pos = d.y.pos
               /\ "Y.move" \in e.calls
               /\ new \subseteq (IF cmd.sprayOn THEN {"relay.LOW", "Y.move"}
                                                ELSE {"Y.move"})

(* C18: what executeCommand touches. A spray command writes the relay as    *)
(* told and moves no axis; a rotation commands only stepperRotation and     *)
(* leaves the relay and both linear axes; a move of X (of Y) commands only  *)
(* that axis, writes the relay LOW when it sprays and leaves the relay as   *)
(* it is when it does not. This holds of every command above on the devices *)
(* of every state the state-dependent action can start from, and of the     *)
(* command a tick actually ran, and that tick changes neither systemState   *)
(* nor sidesToPaint.                                                        *)
C18_ExecutorFrame ==
    /\ [](pc = "switch" =>
             \A cmd \in SampleCommands :
                ExecutorFrame(cmd, Devices, executeCommand(cmd, Devices)))
    /\ [][CommandRan =>
             /\ ExecutorFrame(LastCmd', Devices, Devices')
             /\ systemState' = systemState
             /\ sidesToPaint' = sidesToPaint]_vars

C18_Witness ==
    /\ pc = "poll"
    /\ systemState = "EXECUTING_PATTERN"
    /\ currentSide < NUM_SIDES
    /\ currentCommand >= 1
    /\ LastCmd.type = "R"
    /\ issued = {"R.move"}
    /\ IsRunning(stepperRotation)
    /\ ~IsRunning(stepperX)
    /\ paintRelay = "HIGH"

-----------------------------------------------------------------------------
(* C19: a pattern cycle terminates. While the loop keeps running and every  *)
(* commanded motion completes, EXECUTING_PATTERN leads to CYCLE_COMPLETE    *)
(* and CYCLE_COMPLETE to IDLE, unless an emergency stop takes the system to *)
(* ERROR first; whatever the selection, the empty one and one changed       *)
(* during the cycle included.                                               *)
C19_CycleTerminates ==
    /\ (systemState = "EXECUTING_PATTERN")
          ~> (systemState \in {"CYCLE_COMPLETE", "ERROR"})
    /\ (systemState = "CYCLE_COMPLETE") ~> (systemState \in {"IDLE", "ERROR"})

C19_Witness ==
    /\ pc = "poll"
    /\ systemState = "CYCLE_COMPLETE"
    /\ ~cycleClean
    /\ sidesToPaint = Selection({2, 4})
    /\ AllStopped

-----------------------------------------------------------------------------
(* C20: the relay is asserted only during a pattern cycle: in IDLE,         *)
(* HOMING_X, HOMING_Y, HOMED_WAITING and ERROR the spray is off, whatever   *)
(* the operator has sent, side selections during a cycle included.          *)
C20_SprayOnlyDuringCycle ==
    systemState \in {"IDLE", "HOMING_X", "HOMING_Y", "HOMED_WAITING", "ERROR"}
        => ~SprayAsserted

====
